---------------------------- MODULE Spec2Model ----------------------------
(***************************************************************************)
(* Model of the repository selector of corsaiflow:                         *)
(* DataRepositoryTool._run (src/corsaiflow/tools/data_repository_tool.py)  *)
(* over the catalog handed to DataRepositoryTool.__init__, together with   *)
(* the default catalog of DataRoutingCrew.repositories and the default     *)
(* query of DataQueryFlow.receive_query.                                   *)
(*                                                                         *)
(* A Python str is modelled as a sequence of one-character strings, so     *)
(* that lower(), split() and the `in` substring test are computed the way  *)
(* Python computes them.  A dict is a function whose DOMAIN is the set of  *)
(* keys that are present; dict.get(k) without a default yields an optional *)
(* value [some, val] where some = FALSE stands for None.                   *)
(***************************************************************************)
EXTENDS Integers, Sequences, FiniteSets, TLC

VARIABLES repositories, user_query, score, recommendations, result

vars == <<repositories, user_query, score, recommendations, result>>

-----------------------------------------------------------------------------
(* Bounds of the exploration *)

MaxRepos == 4

-----------------------------------------------------------------------------
(* Python str primitives *)

UpperCase == <<"A","B","C","D","E","F","G","H","I","J","K","L","M","N","O","P","Q","R","S","T","U","V","W","X","Y","Z">>

LowerCase == <<"a","b","c","d","e","f","g","h","i","j","k","l","m","n","o","p","q","r","s","t","u","v","w","x","y","z">>

UpperSet == {UpperCase[i] : i \in 1..Len(UpperCase)}

LowerOf == [c \in UpperSet |-> LowerCase[CHOOSE i \in 1..Len(UpperCase) : UpperCase[i] = c]]

LowerChar(c) == IF c \in UpperSet THEN LowerOf[c] ELSE c

\* str.lower()
Lower(s) == [i \in 1..Len(s) |-> LowerChar(s[i])]

\* characters str.split() without argument treats as separators
IsSpace(c) == c \in {" ", "\t", "\n"}

RECURSIVE SplitFrom(_, _, _)
\* scan s from position i with the token cur under construction; an empty
\* run between separators produces no token
SplitFrom(s, i, cur) ==
    IF i > Len(s)
    THEN IF cur = <<>> THEN <<>> ELSE <<cur>>
    ELSE IF IsSpace(s[i])
         THEN (IF cur = <<>> THEN <<>> ELSE <<cur>>) \o SplitFrom(s, i + 1, <<>>)
         ELSE SplitFrom(s, i + 1, Append(cur, s[i]))

\* str.split()
Split(s) == SplitFrom(s, 1, <<>>)

\* `k in s` for two str
Contains(s, k) ==
    \E i \in 0..(Len(s) - Len(k)) : SubSeq(s, i + 1, i + Len(k)) = k

\* any(keyword in text for keyword in words)
AnyIn(words, text) == \E j \in 1..Len(words) : Contains(text, words[j])

-----------------------------------------------------------------------------
(* dict access *)

\* repo.get(key, "")
Get(repo, key) == IF key \in DOMAIN repo THEN repo[key] ELSE <<>>

\* repo.get(key): None when the key is absent
GetOpt(repo, key) ==
    IF key \in DOMAIN repo THEN [some |-> TRUE, val |-> repo[key]]
                           ELSE [some |-> FALSE, val |-> <<>>]

None == [some |-> FALSE, val |-> <<>>]

-----------------------------------------------------------------------------
(* Scoring loop body of _run *)

SearchWords == <<<<"s", "e", "a", "r", "c", "h">>, <<"f", "i", "n", "d">>, <<"l", "o", "o", "k", " ", "f", "o", "r">>>>

AnalystWords == <<<<"a", "n", "a", "l", "y", "z", "e">>, <<"a", "n", "a", "l", "y", "s", "i", "s">>, <<"i", "n", "s", "i", "g", "h", "t">>, <<"r", "e", "p", "o", "r", "t">>>>

SqlWords == <<<<"q", "u", "e", "r", "y">>, <<"s", "e", "l", "e", "c", "t">>, <<"t", "a", "b", "l", "e">>, <<"d", "a", "t", "a", "b", "a", "s", "e">>>>

AgentWords == <<<<"a", "g", "e", "n", "t">>, <<"a", "s", "s", "i", "s", "t", "a", "n", "t">>, <<"h", "e", "l", "p">>>>

\* variant: the bonus of a keyword family is granted whatever the tool_type
TypeBonus_AnyType(tool_type, query_lower) ==
    (IF AnyIn(SearchWords, query_lower) THEN 2 ELSE 0)
      + (IF AnyIn(AnalystWords, query_lower) THEN 2 ELSE 0)
      + (IF AnyIn(SqlWords, query_lower) THEN 2 ELSE 0)
      + (IF AnyIn(AgentWords, query_lower) THEN 2 ELSE 0)

\* the if/elif chain on tool_type
TypeBonus(tool_type, query_lower) ==
    IF tool_type = <<"s", "e", "a", "r", "c", "h">> /\ AnyIn(SearchWords, query_lower) THEN 2
    ELSE IF tool_type = <<"a", "n", "a", "l", "y", "s", "t">> /\ AnyIn(AnalystWords, query_lower) THEN 2
    ELSE IF tool_type = <<"s", "q", "l">> /\ AnyIn(SqlWords, query_lower) THEN 2
    ELSE IF tool_type = <<"a", "g", "e", "n", "t">> /\ AnyIn(AgentWords, query_lower) THEN 2
    ELSE 0

\* variant: a token has to equal a whole word of the description
DescriptionPoints_WholeWord(repo_desc, query_lower) ==
    LET tokens == Split(query_lower)
        words == Split(repo_desc)
    IN  IF \E j \in 1..Len(tokens) : \E k \in 1..Len(words) : tokens[j] = words[k]
        THEN 2 ELSE 0

DescriptionPoints(repo_desc, query_lower) ==
    IF AnyIn(Split(query_lower), repo_desc) THEN 2 ELSE 0

\* variant: a token has to equal the whole name
NamePoints_WholeName(repo_name, query_lower) ==
    IF \E j \in 1..Len(Split(query_lower)) : Split(query_lower)[j] = repo_name THEN 1 ELSE 0

NamePoints(repo_name, query_lower) ==
    IF AnyIn(Split(query_lower), repo_name) THEN 1 ELSE 0

\* value of the local `score` at the end of one loop iteration
Score(repo, query_lower) ==
    LET repo_desc == Lower(Get(repo, "description"))
        repo_name == Lower(Get(repo, "name"))
        tool_type == Lower(Get(repo, "tool_type"))
    IN  DescriptionPoints(repo_desc, query_lower)
          + NamePoints(repo_name, query_lower)
          + TypeBonus(tool_type, query_lower)

\* the dict appended to recommendations
RecOf(repo, s) ==
    [repository |-> GetOpt(repo, "name"),
     tool_name |-> GetOpt(repo, "tool_name"),
     tool_type |-> GetOpt(repo, "tool_type"),
     description |-> GetOpt(repo, "description"),
     score |-> s]

RECURSIVE Collect(_, _, _)
\* recommendations as the loop leaves it: one dict per repo with score > 0,
\* in catalog order
Collect(repos, scores, i) ==
    IF i > Len(repos) THEN <<>>
    ELSE (IF scores[i] > 0 THEN <<RecOf(repos[i], scores[i])>> ELSE <<>>)
            \o Collect(repos, scores, i + 1)

-----------------------------------------------------------------------------
(* list.sort(key=..., reverse=True) *)

Reverse(l) == [i \in 1..Len(l) |-> l[Len(l) + 1 - i]]

RECURSIVE InsertByScore(_, _)
\* insert x behind every element whose key is not larger (stable)
InsertByScore(sorted, x) ==
    IF sorted = <<>> THEN <<x>>
    ELSE IF x.score < Head(sorted).score
         THEN <<x>> \o sorted
         ELSE <<Head(sorted)>> \o InsertByScore(Tail(sorted), x)

RECURSIVE SortAscending(_)
SortAscending(l) ==
    IF l = <<>> THEN <<>>
    ELSE InsertByScore(SortAscending(SubSeq(l, 1, Len(l) - 1)), l[Len(l)])

\* variant: ascending sort reversed afterwards, which reverses the ties
SortByScoreReverse_Unstable(l) == Reverse(SortAscending(l))

\* CPython keeps reverse=True stable by reversing, sorting ascending and
\* reversing again
SortByScoreReverse(l) == Reverse(SortAscending(Reverse(l)))

-----------------------------------------------------------------------------
(* Result of _run *)

NoResult ==
    [kind |-> "none", query |-> <<>>, names |-> <<>>,
     recommended_repository |-> None, tool_name |-> None, tool_type |-> None,
     description |-> None, confidence |-> "",
     has_alternatives |-> FALSE, alternative_repositories |-> <<>>]

\* variant: "high" only above 3
Confidence_Strict(top_score) == IF top_score > 3 THEN "high" ELSE "medium"

Confidence(top_score) == IF top_score >= 3 THEN "high" ELSE "medium"

\* variant: recommendations[0:2]
Alternatives_FromTop(recs) ==
    [i \in 1..2 |->
        [repository |-> recs[i].repository,
         tool_name |-> recs[i].tool_name,
         score |-> recs[i].score]]

\* recommendations[1:3] projected on repository, tool_name, score
Alternatives(recs) ==
    [i \in 1..(IF Len(recs) >= 3 THEN 2 ELSE Len(recs) - 1) |->
        [repository |-> recs[i + 1].repository,
         tool_name |-> recs[i + 1].tool_name,
         score |-> recs[i + 1].score]]

\* the f-string of the no-match return: r['name'] raises KeyError when a
\* descriptor has no "name" key
NoMatch(repos, query) ==
    IF \E i \in 1..Len(repos) : "name" \notin DOMAIN repos[i]
    THEN [NoResult EXCEPT !.kind = "KeyError"]
    ELSE [NoResult EXCEPT !.kind = "NoMatchFound",
                          !.query = query,
                          !.names = [i \in 1..Len(repos) |-> repos[i]["name"]]]

Recommend(recs) ==
    LET top_rec == recs[1]
    IN  [NoResult EXCEPT !.kind = "Recommendation",
                         !.recommended_repository = top_rec.repository,
                         !.tool_name = top_rec.tool_name,
                         !.tool_type = top_rec.tool_type,
                         !.description = top_rec.description,
                         !.confidence = Confidence(top_rec.score),
                         !.has_alternatives = (Len(recs) > 1),
                         !.alternative_repositories =
                             IF Len(recs) > 1 THEN Alternatives(recs) ELSE <<>>]

-----------------------------------------------------------------------------
(* Inputs *)

\* descriptors handed to __init__; some lack fields
Pool ==
    { [name |-> <<"F", "i", "n", "d">>, description |-> <<"t", "a", "b", "l", "e", " ", "h", "e", "l", "p">>,
       tool_name |-> <<"t", "1">>, tool_type |-> <<"s", "e", "a", "r", "c", "h">>],
      [name |-> <<"R", "e", "p", "o", "r", "t">>, description |-> <<"R", "e", "p", "o", "r", "t", " ", "t", "a", "b", "l", "e">>,
       tool_name |-> <<"t", "2">>, tool_type |-> <<"A", "n", "a", "l", "y", "s", "t">>],
      [description |-> <<"h", "e", "l", "p", " ", "t", "a", "b", "l", "e">>, tool_type |-> <<"s", "q", "l">>],
      [name |-> <<"h", "e", "l", "p", " ", "f", "i", "n", "d">>, tool_name |-> <<"t", "4">>, tool_type |-> <<"a", "g", "e", "n", "t">>],
      [name |-> <<"f", "i", "n", "d", " ", "t", "a", "b", "l", "e">>, description |-> <<"f", "i", "n", "d">>,
       tool_name |-> <<"t", "5">>, tool_type |-> <<"o", "t", "h", "e", "r">>] }

Catalogs == UNION { [1..n -> Pool] : n \in 0..MaxRepos }

\* arguments of _run
Queries ==
    { <<>>, <<" ", " ">>, <<"z", "z">>, <<"f", "i", "n", "d">>, <<"F", "I", "N", "D">>, <<"F", "i", "n", "d", " ", "t", "a", "b", "l", "e">>, <<"f", "i", "n", "d", " ", "T", "A", "B", "L", "E">>,
      <<"t", "a", "b", "l", "e", "?">>, <<"r", "e", "p", "o", "r", "t">>, <<"H", "e", "l", "p", " ", "r", "e", "p", "o", "r", "t">>, <<"h", "e", "l", "p", " ", "R", "E", "P", "O", "R", "T">>, <<"l", "o", "o", "k", " ", "f", "o", "r">>,
      <<" ", "f", "i", "n", "d", " ", " ", "h", "e", "l", "p", " ">> }

-----------------------------------------------------------------------------------------------------------------------------------------------------
(* Default catalog and queries of the flow *)

\* DataRoutingCrew.repositories
DefaultRepositories ==
    << [name |-> <<"P", "r", "o", "d", "u", "c", "t", " ", "S", "e", "a", "r", "c", "h">>,
        description |-> <<"S", "e", "a", "r", "c", "h", " ", "s", "e", "r", "v", "i", "c", "e", " ", "f", "o", "r", " ", "p", "r", "o", "d", "u", "c", "t", " ", "i", "n", "f", "o", "r", "m", "a", "t", "i", "o", "n", ",", " ", "i", "n", "v", "e", "n", "t", "o", "r", "y", ",", " ", "a", "n", "d", " ", "c", "a", "t", "a", "l", "o", "g", " ", "d", "a", "t", "a">>,
        tool_name |-> <<"p", "r", "o", "d", "u", "c", "t", "-", "s", "e", "a", "r", "c", "h">>, tool_type |-> <<"s", "e", "a", "r", "c", "h">>],
       [name |-> <<"R", "e", "v", "e", "n", "u", "e", " ", "A", "n", "a", "l", "y", "t", "i", "c", "s">>,
        description |-> <<"S", "e", "m", "a", "n", "t", "i", "c", " ", "v", "i", "e", "w", " ", "f", "o", "r", " ", "r", "e", "v", "e", "n", "u", "e", " ", "a", "n", "a", "l", "y", "s", "i", "s", ",", " ", "s", "a", "l", "e", "s", " ", "d", "a", "t", "a", ",", " ", "a", "n", "d", " ", "f", "i", "n", "a", "n", "c", "i", "a", "l", " ", "m", "e", "t", "r", "i", "c", "s">>,
        tool_name |-> <<"r", "e", "v", "e", "n", "u", "e", "-", "s", "e", "m", "a", "n", "t", "i", "c", "-", "v", "i", "e", "w">>, tool_type |-> <<"a", "n", "a", "l", "y", "s", "t">>],
       [name |-> <<"S", "Q", "L", " ", "D", "a", "t", "a", "b", "a", "s", "e">>,
        description |-> <<"D", "i", "r", "e", "c", "t", " ", "S", "Q", "L", " ", "a", "c", "c", "e", "s", "s", " ", "t", "o", " ", "d", "a", "t", "a", "b", "a", "s", "e", " ", "t", "a", "b", "l", "e", "s", " ", "a", "n", "d", " ", "v", "i", "e", "w", "s">>,
        tool_name |-> <<"s", "q", "l", "_", "e", "x", "e", "c", "_", "t", "o", "o", "l">>, tool_type |-> <<"s", "q", "l">>],
       [name |-> <<"C", "o", "r", "t", "e", "x", " ", "A", "g", "e", "n", "t">>,
        description |-> <<"A", "I", " ", "a", "g", "e", "n", "t", " ", "f", "o", "r", " ", "c", "o", "m", "p", "l", "e", "x", " ", "d", "a", "t", "a", " ", "q", "u", "e", "r", "i", "e", "s", " ", "a", "n", "d", " ", "a", "n", "a", "l", "y", "s", "i", "s">>,
        tool_name |-> <<"a", "g", "e", "n", "t", "_", "1">>, tool_type |-> <<"a", "g", "e", "n", "t">>] >>

RECURSIVE Configured(_, _)
\* the default descriptors with index in S, in their order
Configured(S, i) ==
    IF i > Len(DefaultRepositories) THEN <<>>
    ELSE (IF i \in S THEN <<DefaultRepositories[i]>> ELSE <<>>) \o Configured(S, i + 1)

\* catalogs configured from the default descriptors
DefaultCatalogs == { Configured(S, 1) : S \in SUBSET (1..Len(DefaultRepositories)) }

\* the two descriptors the documented scenarios use
ScenarioCatalog == Configured({1, 2}, 1)

\* DataQueryFlow.receive_query without trigger payload
DefaultQuery == <<"W", "h", "a", "t", " ", "p", "r", "o", "d", "u", "c", "t", "s", " ", "a", "r", "e", " ", "a", "v", "a", "i", "l", "a", "b", "l", "e", " ", "i", "n", " ", "o", "u", "r", " ", "i", "n", "v", "e", "n", "t", "o", "r", "y", "?">>

SearchCatalogQuery == <<"C", "a", "n", " ", "y", "o", "u", " ", "s", "e", "a", "r", "c", "h", " ", "o", "u", "r", " ", "p", "r", "o", "d", "u", "c", "t", " ", "c", "a", "t", "a", "l", "o", "g", "?">>

ScenarioQueries ==
    { DefaultQuery, SearchCatalogQuery, <<"a", "n", "a", "l", "y", "z", "e", " ", "o", "u", "r", " ", "r", "e", "v", "e", "n", "u", "e", " ", "r", "e", "p", "o", "r", "t">>,
      <<"P", "R", "O", "D", "U", "C", "T", " ", "s", "e", "a", "r", "c", "h">>, <<"p", "r", "o", "d", "u", "c", "t", " ", "S", "E", "A", "R", "C", "H">>, <<"W", "h", "a", "t", " ", "p", "r", "o", "d", "u", "c", "t", "s", " ", "a", "r", "e", " ", "i", "n", " ", "s", "t", "o", "c", "k", "?">>, <<>> }

-----------------------------------------------------------------------------
(* The tool *)

\* variant: the query is matched as typed
QueryLower_AsTyped(query) == query

\* query_lower = user_query.lower()
QueryLower(query) == Lower(query)

\* variant: no test for the empty catalog
DataRepositoryTool_run_NoEmptyTest(repos, query) ==
    LET query_lower == QueryLower(query)
        scores == [i \in 1..Len(repos) |-> Score(repos[i], query_lower)]
        recs == Collect(repos, scores, 1)
        sorted == SortByScoreReverse(recs)
    IN  IF recs = <<>>
        THEN [score |-> scores, recommendations |-> recs,
              result |-> NoMatch(repos, query)]
        ELSE [score |-> scores, recommendations |-> sorted,
              result |-> Recommend(sorted)]

\* body of DataRepositoryTool._run: the locals at the return and the value
\* returned
DataRepositoryTool_run(repos, query) ==
    IF repos = <<>>
    THEN [score |-> <<>>, recommendations |-> <<>>,
          result |-> [NoResult EXCEPT !.kind = "NoRepositoriesConfigured"]]
    ELSE LET query_lower == QueryLower(query)
             scores == [i \in 1..Len(repos) |-> Score(repos[i], query_lower)]
             recs == Collect(repos, scores, 1)
             sorted == SortByScoreReverse(recs)
         IN  IF recs = <<>>
             THEN [score |-> scores, recommendations |-> recs,
                   result |-> NoMatch(repos, query)]
             ELSE [score |-> scores, recommendations |-> sorted,
                   result |-> Recommend(sorted)]

Idle ==
    /\ user_query = <<>>
    /\ score = <<>>
    /\ recommendations = <<>>
    /\ result = NoResult

\* DataRepositoryTool.__init__(repositories)
Init ==
    /\ repositories \in Catalogs
    /\ Idle

\* one call of _run(user_query), entered with no call in progress
Run(query) ==
    /\ result.kind = "none"
    /\ LET r == DataRepositoryTool_run(repositories, query)
       IN  /\ user_query' = query
           /\ score' = r.score
           /\ recommendations' = r.recommendations
           /\ result' = r.result
    /\ UNCHANGED repositories

\* the caller has taken the returned value; the locals of the call are gone
Return ==
    /\ result.kind # "none"
    /\ user_query' = <<>>
    /\ score' = <<>>
    /\ recommendations' = <<>>
    /\ result' = NoResult
    /\ UNCHANGED repositories

Next ==
    \/ \E query \in Queries : Run(query)
    \/ Return

Spec == Init /\ [][Next]_vars

\* DataRepositoryTool(repositories=self.repositories) in DataRoutingCrew.query_router
InitScenario ==
    /\ repositories \in DefaultCatalogs
    /\ Idle

NextScenario ==
    \/ \E query \in ScenarioQueries : Run(query)
    \/ Return

SpecScenario == InitScenario /\ [][NextScenario]_vars

-----------------------------------------------------------------------------
(* Vocabulary of the properties *)

Returned == result.kind # "none"

Recommended == result.kind = "Recommendation"

\* catalog positions whose descriptor scored above zero
Positive == {i \in 1..Len(repositories) : score[i] > 0}

TopScore == CHOOSE m \in {score[i] : i \in Positive} : \A i \in Positive : score[i] <= m

\* the top recommendation carries the fields of catalog entry i
TopIs(i) ==
    /\ result.recommended_repository = GetOpt(repositories[i], "name")
    /\ result.tool_name = GetOpt(repositories[i], "tool_name")
    /\ result.tool_type = GetOpt(repositories[i], "tool_type")
    /\ result.description = GetOpt(repositories[i], "description")

\* an alternate carries the fields and the score of catalog entry i
AlternateIs(alt, i) ==
    /\ alt.repository = GetOpt(repositories[i], "name")
    /\ alt.tool_name = GetOpt(repositories[i], "tool_name")
    /\ alt.score = score[i]

\* i is ranked ahead of j: larger score, or equal score and earlier in the catalog
Ahead(i, j) == score[i] > score[j] \/ (score[i] = score[j] /\ i < j)

RankOf(i) == 1 + Cardinality({j \in Positive : Ahead(j, i)})

CasePair(c, d) == \E k \in 1..Len(UpperCase) : {c, d} = {UpperCase[k], LowerCase[k]}

\* two strings that differ at most in the case of their letters
SameModuloCase(a, b) ==
    /\ Len(a) = Len(b)
    /\ \A i \in 1..Len(a) : a[i] = b[i] \/ CasePair(a[i], b[i])

\* some query token is a substring of the lowercased text
TokenOverlap(text, query) ==
    LET tokens == Split(Lower(query))
        lowered == Lower(text)
    IN  \E k \in 1..Len(tokens) : Contains(lowered, tokens[k])

\* the keyword families of the type tags
Families ==
    { <<<<"s", "e", "a", "r", "c", "h">>, SearchWords>>, <<<<"a", "n", "a", "l", "y", "s", "t">>, AnalystWords>>,
      <<<<"s", "q", "l">>, SqlWords>>, <<<<"a", "g", "e", "n", "t">>, AgentWords>> }

\* families whose tag is the descriptor's type and one of whose keywords is in the query
Fired(repo, query) ==
    {f \in Families : /\ Lower(Get(repo, "tool_type")) = f[1]
                      /\ \E k \in 1..Len(f[2]) : Contains(Lower(query), f[2][k])}

Recognized(repo) == \E f \in Families : Lower(Get(repo, "tool_type")) = f[1]

-----------------------------------------------------------------------------
(* Properties *)

\* C1: with an empty catalog every call, whatever the query, returns the
\* NoRepositoriesConfigured outcome as a value: no recommendation, no
\* NoMatchFound, no raised error.
C1_EmptyCatalogNotConfigured ==
    (Returned /\ repositories = <<>>) =>
        /\ result.kind = "NoRepositoriesConfigured"
        /\ recommendations = <<>>

C1_Witness ==
    /\ repositories = <<>>
    /\ user_query # <<>>
    /\ result.kind = "NoRepositoriesConfigured"

\* C2: with a non-empty catalog in which every descriptor scores 0, the call
\* yields NoMatchFound carrying the original query and the name of every
\* catalog descriptor, once each and in catalog order.
C2_AllZeroIsNoMatch ==
    (Returned /\ repositories # <<>> /\ Positive = {}) =>
        /\ result.kind = "NoMatchFound"
        /\ result.query = user_query
        /\ Len(result.names) = Len(repositories)
        /\ \A i \in 1..Len(repositories) :
              GetOpt(repositories[i], "name") = [some |-> TRUE, val |-> result.names[i]]

\* C3: the call never raises for descriptors that lack fields: it ends in a
\* recommendation, NoRepositoriesConfigured or NoMatchFound, also when every
\* descriptor scores 0.
C3_NeverRaises ==
    Returned => result.kind \in {"Recommendation", "NoRepositoriesConfigured", "NoMatchFound"}

\* C4: the ranking is by score descending and descriptors of equal score keep
\* their catalog order; the recommendation is the earliest catalog entry of
\* maximal score and the alternates follow in ranking order.
C4_StableRanking ==
    Recommended =>
        /\ Len(recommendations) = Cardinality(Positive)
        /\ \A i \in Positive :
              recommendations[RankOf(i)] = RecOf(repositories[i], score[i])
        /\ \A i \in Positive : RankOf(i) = 1 => TopIs(i)
        /\ \A i \in Positive :
              RankOf(i) \in 2..3 =>
                 /\ Len(result.alternative_repositories) >= RankOf(i) - 1
                 /\ AlternateIs(result.alternative_repositories[RankOf(i) - 1], i)

C4_Witness ==
    /\ Recommended
    /\ \E i, j, k \in 1..Len(repositories) :
          /\ i < j /\ j < k
          /\ score[i] > 0 /\ score[i] < score[j]
          /\ score[j] = score[k] /\ score[j] = TopScore
          /\ GetOpt(repositories[j], "name") # GetOpt(repositories[k], "name")
          /\ TopIs(j)
          /\ AlternateIs(result.alternative_repositories[1], k)
          /\ AlternateIs(result.alternative_repositories[2], i)

\* C5: a recommendation has confidence "high" exactly when the top score is
\* at least 3 and "medium" exactly when it is 1 or 2; there is no other value.
C5_ConfidenceThreshold ==
    Recommended =>
        /\ result.confidence \in {"high", "medium"}
        /\ result.confidence = "high" <=> TopScore >= 3
        /\ result.confidence = "medium" <=> TopScore \in {1, 2}

C5_Witness ==
    /\ Recommended
    /\ TopScore = 3
    /\ result.confidence = "high"

\* C6: the alternates are at most 2, are catalog entries other than the one
\* recommended, all scored above zero, and are present only when more than
\* one descriptor scored above zero.
C6_Alternates ==
    Recommended =>
        LET alts == result.alternative_repositories
        IN  /\ Len(alts) <= 2
            /\ result.has_alternatives => Cardinality(Positive) > 1
            /\ ~result.has_alternatives => alts = <<>>
            /\ \A k \in 1..Len(alts) : alts[k].score > 0
            /\ \E top \in Positive :
                  /\ TopIs(top)
                  /\ \E f \in [1..Len(alts) -> Positive \ {top}] :
                        /\ \A k, l \in 1..Len(alts) : f[k] = f[l] => k = l
                        /\ \A k \in 1..Len(alts) : AlternateIs(alts[k], f[k])

C6_Witness ==
    /\ Recommended
    /\ Cardinality(Positive) >= 4
    /\ result.has_alternatives
    /\ Len(result.alternative_repositories) = 2

\* C7: two queries that differ only in letter case give the same result on the
\* same catalog: the same scores, ranking, recommendation, confidence and
\* alternates, or the same kind of failure.
C7_CaseInsensitive ==
    Returned =>
        \A other \in Queries :
            SameModuloCase(other, user_query) =>
                LET r == DataRepositoryTool_run(repositories, other)
                IN  /\ r.score = score
                    /\ r.recommendations = recommendations
                    /\ [r.result EXCEPT !.query = <<>>] = [result EXCEPT !.query = <<>>]

C7_Witness ==
    /\ Recommended
    /\ user_query # Lower(user_query)
    /\ \E i \in Positive : Fired(repositories[i], user_query) # {}
    /\ \E other \in Queries : other # user_query /\ SameModuloCase(other, user_query)

\* C8 as stated: on the two-descriptor catalog the query "Can you search our
\* product catalog?" recommends Product Search with total score 4 (description
\* +2, search bonus +2) and confidence "high".
C8_Stated ==
    (Returned /\ repositories = ScenarioCatalog /\ user_query = SearchCatalogQuery) =>
        /\ Recommended
        /\ TopIs(1)
        /\ score[1] = 4
        /\ result.confidence = "high"

\* C8 amended: the tokens "search" and "product" are also substrings of the
\* name "product search" (+1), so Product Search is recommended with total
\* score 2 + 1 + 2 = 5 and confidence "high"; Revenue Analytics scores 0.
C8_SearchCatalogScenario ==
    (Returned /\ repositories = ScenarioCatalog /\ user_query = SearchCatalogQuery) =>
        /\ Recommended
        /\ TopIs(1)
        /\ TokenOverlap(repositories[1].description, user_query)
        /\ TokenOverlap(repositories[1].name, user_query)
        /\ Fired(repositories[1], user_query) # {}
        /\ score = <<5, 0>>
        /\ result.confidence = "high"
        /\ ~result.has_alternatives

C8_Witness ==
    /\ Recommended
    /\ repositories = ScenarioCatalog
    /\ user_query = SearchCatalogQuery
    /\ score[1] = 5

\* tokens of the query that are substrings of the lowercased text
MatchingTokens(text, query) ==
    LET tokens == Split(Lower(query))
        lowered == Lower(text)
    IN  {tokens[k] : k \in {j \in 1..Len(tokens) : Contains(lowered, tokens[j])}}

\* C9 as stated: on the two-descriptor catalog and the default query the token
\* "inventory" matches the description of Product Search (+2), no search bonus
\* fires, the top score is 2, the confidence "medium" and Product Search is
\* recommended.
C9_Stated ==
    (Returned /\ repositories = ScenarioCatalog /\ user_query = DefaultQuery) =>
        /\ <<"i", "n", "v", "e", "n", "t", "o", "r", "y">> \in MatchingTokens(repositories[1].description, user_query)
        /\ Fired(repositories[1], user_query) = {}
        /\ Recommended
        /\ TopScore = 2
        /\ result.confidence = "medium"
        /\ TopIs(1)

\* C9 amended: the token is "inventory?" and matches nothing; the +2 of
\* Product Search comes from the token "in", which is also a substring of the
\* description of Revenue Analytics; no type bonus fires, both score 2, the
\* confidence is "medium" and Product Search is recommended as the earlier
\* entry, with Revenue Analytics as the only alternate.
C9_DefaultQueryScenario ==
    (Returned /\ repositories = ScenarioCatalog /\ user_query = DefaultQuery) =>
        /\ MatchingTokens(repositories[1].description, user_query) = {<<"i", "n">>}
        /\ MatchingTokens(repositories[2].description, user_query) = {<<"i", "n">>}
        /\ MatchingTokens(repositories[1].name, user_query) = {}
        /\ Fired(repositories[1], user_query) = {}
        /\ Fired(repositories[2], user_query) = {}
        /\ Recommended
        /\ score = <<2, 2>>
        /\ result.confidence = "medium"
        /\ TopIs(1)
        /\ Len(result.alternative_repositories) = 1
        /\ AlternateIs(result.alternative_repositories[1], 2)

C9_Witness ==
    /\ Recommended
    /\ repositories = ScenarioCatalog
    /\ user_query = DefaultQuery
    /\ result.confidence = "medium"

\* C10: each score is the description overlap (+2) plus the name overlap (+1)
\* plus 2 for at most one type bonus, hence an integer in 0..5, and at most 3
\* for a descriptor whose type is none of search, analyst, sql, agent.
C10_ScoreRange ==
    Returned =>
        \A i \in 1..Len(score) :
            LET repo == repositories[i]
                overlap == (IF TokenOverlap(Get(repo, "description"), user_query) THEN 2 ELSE 0)
                             + (IF TokenOverlap(Get(repo, "name"), user_query) THEN 1 ELSE 0)
            IN  /\ Cardinality(Fired(repo, user_query)) <= 1
                /\ score[i] = overlap + 2 * Cardinality(Fired(repo, user_query))
                /\ score[i] \in 0..5
                /\ ~Recognized(repo) => score[i] <= 3

C10_Witness ==
    /\ Returned
    /\ \E i, j \in 1..Len(score) :
          /\ score[i] = 5
          /\ ~Recognized(repositories[j]) /\ score[j] = 3

=============================================================================
